---- MODULE Spec2Model ----
(***************************************************************************)
(* Model of Lab Manual/Lab 12/SERVER/server.py: YOLODetectionServer.       *)
(*                                                                         *)
(* One asyncio event loop runs every connection handler.  A handler gives  *)
(* the loop back only at an await that really suspends: the read of the    *)
(* next message (line 40) and the send (line 45).  process_frame is an     *)
(* async def without any await in its body, so the decode and the detector *)
(* call run on the loop thread from start to return.                       *)
(***************************************************************************)
EXTENDS Integers, Sequences, FiniteSets, TLC

\* ---------------------------------------------------------------- bounds
NumConns == 2
\* messages the peers send in one behaviour
MaxFrames == 2
\* the same, in the behaviours checked for liveness
MaxFairFrames == 1
\* the largest reading of the clock
MaxClock == 2

Conns == 1..NumConns
NoConn == 0

\* ------------------------------------------------------- program constants
\* websockets.serve(..., max_size=10*1024*1024)
max_size == 10 * 1024 * 1024

\* results.names: the detector's label table, class index -> label
names == [i \in 0..1 |-> IF i = 0 THEN "person" ELSE "car"]

\* ------------------------------------------------------------ the inputs
\* The byte strings a client may send, one per behaviour of the external
\* decoder and detector:
\*   empty  zero bytes, Image.open raises UnidentifiedImageError
\*   crash  decodes, the model call raises an exception that has a message
\*   bare   decodes, the model call raises an exception built without
\*          arguments (raise NotImplementedError, a failed bare assert,
\*          MemoryError()), whose str() is the empty string
\*   blank  decodes, no object found
\*   one    decodes, one box
\*   limit  exactly max_size bytes, decodes, two boxes, the second one with
\*          its corners in the wrong order
\*   huge   max_size + 1 bytes
Payloads == {"empty", "crash", "bare", "blank", "one", "limit", "huge"}

\* The messages the peers send in the behaviours of the connection
\* handling: one that fails, one that succeeds, one that is too large.
\* What process_frame does with each kind of input is explored in PureSpec.
ConnPayloads == {"empty", "limit", "huge"}

Size(p) ==
    CASE p = "empty" -> 0
      [] p = "limit" -> max_size
      [] p = "huge"  -> max_size + 1
      [] OTHER       -> 4096

\* Readings of time.time(): wall-clock, so the second reading may be lower
\* than the first when the system clock is set back in between.
TimeReadings == 0..MaxClock

\* The readings in the behaviours of the connection handling.
ConnReadings == {0}

\* Coordinates are normalised to [0,1]; modelled in quarters (0..4), and
\* confidences in percent.
Box(cls, conf, x1, y1, x2, y2) ==
    [cls |-> cls, conf |-> conf, x1 |-> x1, y1 |-> y1, x2 |-> x2, y2 |-> y2]

\* Image.open / np.array / cv2.cvtColor raise on this input
DecodeRaises(p) == p = "empty"

\* self.model(frame, verbose=False) raises on this input
ModelRaises(p) == p \in {"crash", "bare"}

\* str(e) of the exception raised while processing p
ExceptionStr(p) ==
    CASE p = "empty" -> "cannot identify image file"
      [] p = "crash" -> "CUDA error"
      [] OTHER       -> ""

\* results.boxes for an input that decodes and on which the model returns
ModelBoxes(p) ==
    CASE p = "one"   -> << Box(0, 90, 1, 1, 3, 4) >>
      [] p = "limit" -> << Box(1, 55, 0, 0, 4, 2), Box(0, 30, 3, 1, 2, 1) >>
      [] OTHER       -> << >>

\* Detection taking the second corner for the size (width = x2,
\* height = y2) instead of the difference of the corners.
Detection_corner(box) ==
    [className  |-> names[box.cls],
     confidence |-> box.conf,
     x          |-> box.x1,
     y          |-> box.y1,
     width      |-> box.x2,
     height     |-> box.y2]

\* lines 80-87: the detection dict built from one box
Detection(box) ==
    [className  |-> names[box.cls],
     confidence |-> box.conf,
     x          |-> box.x1,
     y          |-> box.y1,
     width      |-> box.x2 - box.x1,
     height     |-> box.y2 - box.y1]

\* lines 74-89: detections = [] ; for box in results.boxes: append
MapBoxes(boxes) == [i \in 1..Len(boxes) |-> Detection(boxes[i])]

\* lines 97-101
SuccessResponse(dets, elapsed) ==
    [status |-> "success", detections |-> dets, inference_time |-> elapsed]

\* ErrorResponse without the detections key.
ErrorResponse_noDetections(msg) ==
    [status |-> "error", message |-> msg]

\* lines 103-109
ErrorResponse(msg) ==
    [status |-> "error", message |-> msg, detections |-> << >>]

\* lines 52-109: process_frame, with the two readings of time.time()
process_frame(image_bytes, start_time, end_time) ==
    IF DecodeRaises(image_bytes) \/ ModelRaises(image_bytes)
    THEN ErrorResponse(ExceptionStr(image_bytes))
    ELSE SuccessResponse(MapBoxes(ModelBoxes(image_bytes)),
                         end_time - start_time)

\* ------------------------------------------------------------- the state
VARIABLES
    pc,         \* per connection: where its handler is
    clients,    \* self.clients
    connState,  \* the websocket's state as the library sees it
    inbox,      \* messages received by the library, not yet iterated
    message,    \* handle_client's local `message`
    response,   \* handle_client's local `response`
    sent,       \* what websocket.send wrote on the connection, in order
    readlog,    \* the frames `async for` handed to the handler, in order
    loop,       \* the handler running on the event loop thread, or NoConn
    exit,       \* how the handler ended
    removals,   \* number of clients.remove(websocket) calls per connection
    keyErrors,  \* connections whose clients.remove raised KeyError
    nframes,    \* per connection: messages the peer has sent
    budget,     \* messages the peers send in this behaviour
    call        \* one call of process_frame: its inputs and what it returned

vars == <<pc, clients, connState, inbox, message, response, sent, readlog,
          loop, exit, removals, keyErrors, nframes, budget, call>>

NoMessage == [seq |-> 0, data |-> "none"]
NoResponse == [status |-> "none"]

RECURSIVE SumTo(_, _)
SumTo(f, n) == IF n = 0 THEN 0 ELSE f[n] + SumTo(f, n - 1)
TotalFrames == SumTo(nframes, NumConns)

NoCall == [image_bytes |-> "none", start_time |-> 0, end_time |-> 0,
           ret |-> NoResponse]

\* __init__ (lines 26-28): no connection yet, self.clients is empty.
Idle ==
    /\ pc = [c \in Conns |-> "fresh"]
    /\ clients = {}
    /\ connState = [c \in Conns |-> "NONE"]
    /\ inbox = [c \in Conns |-> << >>]
    /\ message = [c \in Conns |-> NoMessage]
    /\ response = [c \in Conns |-> NoResponse]
    /\ sent = [c \in Conns |-> << >>]
    /\ readlog = [c \in Conns |-> << >>]
    /\ loop = NoConn
    /\ exit = [c \in Conns |-> "running"]
    /\ removals = [c \in Conns |-> 0]
    /\ keyErrors = {}
    /\ nframes = [c \in Conns |-> 0]

Init == Idle /\ budget = MaxFrames /\ call = NoCall

FairInit == Idle /\ budget = MaxFairFrames /\ call = NoCall

\* process_frame on its own: any input, any two readings of the clock.
PureInit ==
    /\ Idle
    /\ budget = 0
    /\ \E b \in Payloads, t0 \in TimeReadings, t1 \in TimeReadings :
          call = [image_bytes |-> b, start_time |-> t0, end_time |-> t1,
                  ret |-> NoResponse]

\* ------------------------------------------------------- the environment
\* Accept in a server whose accept loop ended with the first handler
\* that raised.
Accept_untilFailure(c) ==
    /\ loop = NoConn
    /\ pc[c] = "fresh"
    /\ \A b \in Conns : b < c => pc[b] # "fresh"
    /\ \A b \in Conns : exit[b] # "raised"
    /\ pc' = [pc EXCEPT ![c] = "recv"]
    /\ connState' = [connState EXCEPT ![c] = "OPEN"]
    /\ clients' = clients \cup {c}
    /\ UNCHANGED <<inbox, message, response, sent, readlog, loop, exit,
                   removals, keyErrors, nframes>>
    /\ UNCHANGED <<budget, call>>

\* Accept whose handler does not register the connection.
Accept_noRegister(c) ==
    /\ loop = NoConn
    /\ pc[c] = "fresh"
    /\ \A b \in Conns : b < c => pc[b] # "fresh"
    /\ pc' = [pc EXCEPT ![c] = "recv"]
    /\ connState' = [connState EXCEPT ![c] = "OPEN"]
    /\ UNCHANGED <<clients, inbox, message, response, sent, readlog, loop,
                   exit, removals, keyErrors, nframes>>
    /\ UNCHANGED <<budget, call>>

\* websockets.serve accepts a connection and starts handle_client, which
\* runs lines 35-40 up to its first suspension: the connection is added
\* to self.clients and the handler waits for the first message.
\* Connections are numbered in the order they are accepted.
Accept(c) ==
    /\ loop = NoConn
    /\ pc[c] = "fresh"
    /\ \A b \in Conns : b < c => pc[b] # "fresh"
    /\ pc' = [pc EXCEPT ![c] = "recv"]
    /\ connState' = [connState EXCEPT ![c] = "OPEN"]
    /\ clients' = clients \cup {c}
    /\ UNCHANGED <<inbox, message, response, sent, readlog, loop, exit,
                   removals, keyErrors, nframes>>
    /\ UNCHANGED <<budget, call>>

\* Deliver without the size limit: every message is queued.
Deliver_unlimited(c, p) ==
    /\ loop = NoConn
    /\ connState[c] = "OPEN"
    /\ TotalFrames < budget
    /\ nframes' = [nframes EXCEPT ![c] = @ + 1]
    /\ inbox' = [inbox EXCEPT
                   ![c] = Append(@, [seq |-> nframes[c] + 1, data |-> p])]
    /\ UNCHANGED <<pc, clients, connState, message, response, sent, readlog,
                   loop, exit, removals, keyErrors>>
    /\ UNCHANGED <<budget, call>>

\* A message of the peer arrives.  The library queues it for the iterator,
\* unless it is larger than max_size: then the library fails the
\* connection (close code 1009) and the message is dropped.
Deliver(c, p) ==
    /\ loop = NoConn
    /\ connState[c] = "OPEN"
    /\ TotalFrames < budget
    /\ nframes' = [nframes EXCEPT ![c] = @ + 1]
    /\ IF Size(p) > max_size
       THEN /\ connState' = [connState EXCEPT ![c] = "CLOSED_ERR"]
            /\ UNCHANGED inbox
       ELSE /\ inbox' = [inbox EXCEPT
                           ![c] = Append(@, [seq |-> nframes[c] + 1,
                                             data |-> p])]
            /\ UNCHANGED connState
    /\ UNCHANGED <<pc, clients, message, response, sent, readlog, loop,
                   exit, removals, keyErrors>>
    /\ UNCHANGED <<budget, call>>

\* The peer closes the connection, with a close handshake (CLOSED_OK) or
\* by dropping it (CLOSED_ERR).
PeerClose(c, how) ==
    /\ loop = NoConn
    /\ connState[c] = "OPEN"
    /\ connState' = [connState EXCEPT ![c] = how]
    /\ UNCHANGED <<pc, clients, inbox, message, response, sent, readlog,
                   loop, exit, removals, keyErrors, nframes>>
    /\ UNCHANGED <<budget, call>>

\* ----------------------------------------------------------- the handler
\* Teardown with the removal written in the except clause (line 48)
\* instead of the finally clause: it runs only when ConnectionClosed was
\* caught.
Teardown_exceptOnly(c, how) ==
    /\ pc' = [pc EXCEPT ![c] = "done"]
    /\ exit' = [exit EXCEPT ![c] = how]
    /\ clients' = IF how \in {"recv_closed", "send_closed"}
                  THEN clients \ {c} ELSE clients
    /\ removals' = [removals EXCEPT
                      ![c] = IF how \in {"recv_closed", "send_closed"}
                             THEN @ + 1 ELSE @]
    /\ keyErrors' = keyErrors
    /\ loop' = NoConn

\* Teardown that empties the whole set (self.clients.clear()).
Teardown_clear(c, how) ==
    /\ pc' = [pc EXCEPT ![c] = "done"]
    /\ exit' = [exit EXCEPT ![c] = how]
    /\ clients' = {}
    /\ removals' = [removals EXCEPT ![c] = @ + 1]
    /\ keyErrors' = IF c \in clients THEN keyErrors ELSE keyErrors \cup {c}
    /\ loop' = NoConn

\* line 50, reached from every way out of the try block:
\* self.clients.remove(websocket), which raises KeyError when the
\* connection is not in the set.
Teardown(c, how) ==
    /\ pc' = [pc EXCEPT ![c] = "done"]
    /\ exit' = [exit EXCEPT ![c] = how]
    /\ clients' = clients \ {c}
    /\ removals' = [removals EXCEPT ![c] = @ + 1]
    /\ keyErrors' = IF c \in clients THEN keyErrors ELSE keyErrors \cup {c}
    /\ loop' = NoConn

\* ReadFrame handing out the newest queued message instead of the oldest.
ReadFrame_newest(c) ==
    /\ loop = NoConn
    /\ pc[c] = "recv"
    /\ inbox[c] # << >>
    /\ message' = [message EXCEPT ![c] = inbox[c][Len(inbox[c])]]
    /\ inbox' = [inbox EXCEPT ![c] = SubSeq(@, 1, Len(@) - 1)]
    /\ readlog' = [readlog EXCEPT ![c] = Append(@, inbox[c][Len(inbox[c])])]
    /\ pc' = [pc EXCEPT ![c] = "process"]
    /\ loop' = c
    /\ UNCHANGED <<clients, connState, response, sent, exit, removals,
                   keyErrors, nframes>>
    /\ UNCHANGED <<budget, call>>

\* ReadFrame that also takes a queued message after the handler has ended.
ReadFrame_afterClose(c) ==
    /\ loop = NoConn
    /\ pc[c] \in {"recv", "done"}
    /\ inbox[c] # << >>
    /\ message' = [message EXCEPT ![c] = Head(inbox[c])]
    /\ inbox' = [inbox EXCEPT ![c] = Tail(@)]
    /\ readlog' = [readlog EXCEPT ![c] = Append(@, Head(inbox[c]))]
    /\ pc' = [pc EXCEPT ![c] = "process"]
    /\ loop' = c
    /\ UNCHANGED <<clients, connState, response, sent, exit, removals,
                   keyErrors, nframes>>
    /\ UNCHANGED <<budget, call>>

\* ReadFrame handing the frame to a worker: the handler enters
\* process_frame but the loop is free for the other handlers.
ReadFrame_offloaded(c) ==
    /\ loop = NoConn
    /\ pc[c] = "recv"
    /\ inbox[c] # << >>
    /\ message' = [message EXCEPT ![c] = Head(inbox[c])]
    /\ inbox' = [inbox EXCEPT ![c] = Tail(@)]
    /\ readlog' = [readlog EXCEPT ![c] = Append(@, Head(inbox[c]))]
    /\ pc' = [pc EXCEPT ![c] = "process"]
    /\ loop' = NoConn
    /\ UNCHANGED <<clients, connState, response, sent, exit, removals,
                   keyErrors, nframes>>
    /\ UNCHANGED <<budget, call>>

\* line 40: the iterator yields the oldest queued message; the handler
\* goes on into process_frame without giving the loop back.
ReadFrame(c) ==
    /\ loop = NoConn
    /\ pc[c] = "recv"
    /\ inbox[c] # << >>
    /\ message' = [message EXCEPT ![c] = Head(inbox[c])]
    /\ inbox' = [inbox EXCEPT ![c] = Tail(@)]
    /\ readlog' = [readlog EXCEPT ![c] = Append(@, Head(inbox[c]))]
    /\ pc' = [pc EXCEPT ![c] = "process"]
    /\ loop' = c
    /\ UNCHANGED <<clients, connState, response, sent, exit, removals,
                   keyErrors, nframes>>
    /\ UNCHANGED <<budget, call>>

\* line 42: response = await self.process_frame(message).  The coroutine
\* never suspends, so the loop stays with this handler until it returns.
ProcessFrame(c) ==
    /\ loop = c
    /\ pc[c] = "process"
    /\ \E start_time \in ConnReadings, end_time \in ConnReadings :
          response' = [response EXCEPT
              ![c] = process_frame(message[c].data, start_time, end_time)]
    /\ pc' = [pc EXCEPT ![c] = "send"]
    /\ UNCHANGED <<clients, connState, inbox, message, sent, readlog, loop,
                   exit, removals, keyErrors, nframes>>
    /\ UNCHANGED <<budget, call>>

\* Outgoing taking the response from a slot all handlers share instead of
\* the handler's own local.
Outgoing_shared(c) ==
    [of |-> message[c].seq,
     body |-> response[CHOOSE d \in Conns : response[d] # NoResponse]]

\* line 45: the argument of websocket.send
Outgoing(c) == [of |-> message[c].seq, body |-> response[c]]

\* SendResponse that answers a frame only when processing succeeded.
SendResponse_skipError(c) ==
    /\ loop = c
    /\ pc[c] = "send"
    /\ IF connState[c] = "OPEN"
       THEN /\ sent' = [sent EXCEPT
                          ![c] = IF response[c].status = "error"
                                 THEN @ ELSE Append(@, Outgoing(c))]
            /\ \E next \in {"recv", "drain"} :
                  pc' = [pc EXCEPT ![c] = next]
            /\ loop' = NoConn
            /\ UNCHANGED <<clients, exit, removals, keyErrors>>
       ELSE /\ Teardown(c, "send_closed")
            /\ UNCHANGED sent
    /\ UNCHANGED <<connState, inbox, message, response, readlog, nframes>>
    /\ UNCHANGED <<budget, call>>

\* SendResponse that leaves the loop after it has sent an error Response.
SendResponse_closeOnError(c) ==
    /\ loop = c
    /\ pc[c] = "send"
    /\ IF connState[c] = "OPEN"
       THEN /\ sent' = [sent EXCEPT ![c] = Append(@, Outgoing(c))]
            /\ IF response[c].status = "error"
               THEN Teardown(c, "iter_end")
               ELSE /\ \E next \in {"recv", "drain"} :
                          pc' = [pc EXCEPT ![c] = next]
                    /\ loop' = NoConn
                    /\ UNCHANGED <<clients, exit, removals, keyErrors>>
       ELSE /\ Teardown(c, "send_closed")
            /\ UNCHANGED sent
    /\ UNCHANGED <<connState, inbox, message, response, readlog, nframes>>
    /\ UNCHANGED <<budget, call>>

\* SendResponse that swallows a failed write and goes on to the next read.
SendResponse_ignoreFailure(c) ==
    /\ loop = c
    /\ pc[c] = "send"
    /\ sent' = [sent EXCEPT ![c] = IF connState[c] = "OPEN"
                                   THEN Append(@, Outgoing(c)) ELSE @]
    /\ \E next \in {"recv", "drain"} : pc' = [pc EXCEPT ![c] = next]
    /\ loop' = NoConn
    /\ UNCHANGED <<clients, exit, removals, keyErrors>>
    /\ UNCHANGED <<connState, inbox, message, response, readlog, nframes>>
    /\ UNCHANGED <<budget, call>>

\* line 45: await websocket.send(json.dumps(response)).  On a connection
\* the library knows to be closed, send raises ConnectionClosed (lines
\* 47-50).  Otherwise the message is written, and the handler either goes
\* straight back to the iterator or is suspended until the write buffer
\* drains.
SendResponse(c) ==
    /\ loop = c
    /\ pc[c] = "send"
    /\ IF connState[c] = "OPEN"
       THEN /\ sent' = [sent EXCEPT ![c] = Append(@, Outgoing(c))]
            /\ \E next \in {"recv", "drain"} :
                  pc' = [pc EXCEPT ![c] = next]
            /\ loop' = NoConn
            /\ UNCHANGED <<clients, exit, removals, keyErrors>>
       ELSE /\ Teardown(c, "send_closed")
            /\ UNCHANGED sent
    /\ UNCHANGED <<connState, inbox, message, response, readlog, nframes>>
    /\ UNCHANGED <<budget, call>>

\* line 45, resumed: the buffer drained, or the connection was lost while
\* the handler waited and send raises ConnectionClosed (lines 47-50).
DrainDone(c) ==
    /\ loop = NoConn
    /\ pc[c] = "drain"
    /\ IF connState[c] = "OPEN"
       THEN /\ pc' = [pc EXCEPT ![c] = "recv"]
            /\ UNCHANGED <<clients, loop, exit, removals, keyErrors>>
       ELSE Teardown(c, "send_closed")
    /\ UNCHANGED <<connState, inbox, message, response, sent, readlog,
                   nframes>>
    /\ UNCHANGED <<budget, call>>

\* line 40 on a closed connection whose queue is empty: after a close
\* handshake the iteration ends and the loop is left normally; after a
\* lost or failed connection the iterator raises ConnectionClosed, which
\* line 47 catches.  Both go through line 50.
EndOfStream(c) ==
    /\ loop = NoConn
    /\ pc[c] = "recv"
    /\ inbox[c] = << >>
    /\ connState[c] \in {"CLOSED_OK", "CLOSED_ERR"}
    /\ Teardown(c, IF connState[c] = "CLOSED_OK"
                   THEN "iter_end" ELSE "recv_closed")
    /\ UNCHANGED <<connState, inbox, message, response, sent, readlog,
                   nframes>>
    /\ UNCHANGED <<budget, call>>

\* Any exception that is not ConnectionClosed, raised at one of the two
\* awaits (the handler's task is cancelled): line 47 does not catch it,
\* line 50 runs, the exception leaves handle_client and the library
\* closes the connection.
HandlerCancelled(c) ==
    /\ loop = NoConn
    /\ pc[c] \in {"recv", "drain"}
    /\ Teardown(c, "raised")
    /\ connState' = [connState EXCEPT
                       ![c] = IF @ = "OPEN" THEN "CLOSED_ERR" ELSE @]
    /\ UNCHANGED <<inbox, message, response, sent, readlog, nframes>>
    /\ UNCHANGED <<budget, call>>

Handler(c) ==
    \/ ReadFrame(c)
    \/ ProcessFrame(c)
    \/ SendResponse(c)
    \/ DrainDone(c)
    \/ EndOfStream(c)

Next ==
    \/ \E c \in Conns : Accept(c)
    \/ \E c \in Conns, p \in ConnPayloads : Deliver(c, p)
    \/ \E c \in Conns, how \in {"CLOSED_OK", "CLOSED_ERR"} : PeerClose(c, how)
    \/ \E c \in Conns : ReadFrame(c)
    \/ \E c \in Conns : ProcessFrame(c)
    \/ \E c \in Conns : SendResponse(c)
    \/ \E c \in Conns : DrainDone(c)
    \/ \E c \in Conns : EndOfStream(c)
    \/ \E c \in Conns : HandlerCancelled(c)

Spec == Init /\ [][Next]_vars

\* The event loop runs every handler that is ready, and every call of the
\* decoder and the detector returns or raises.
FairSpec ==
    FairInit /\ [][Next]_vars /\ \A c \in Conns : WF_vars(Handler(c))

\* lines 52-109 as one call: process_frame returns a Response.
CallProcessFrame ==
    /\ call.ret = NoResponse
    /\ call.image_bytes \in Payloads
    /\ call' = [call EXCEPT
                  !.ret = process_frame(call.image_bytes, call.start_time,
                                        call.end_time)]
    /\ UNCHANGED <<pc, clients, connState, inbox, message, response, sent,
                   readlog, loop, exit, removals, keyErrors, nframes, budget>>

PureNext == CallProcessFrame

PureSpec == PureInit /\ [][PureNext]_vars

\* ----------------------------------------------------------- the claims
\* The responses process_frame can return for one input, over the readings
\* of the clock.
Results(data) ==
    { process_frame(data, t0, t1) : t0 \in TimeReadings, t1 \in TimeReadings }

Closed == {"CLOSED_OK", "CLOSED_ERR"}

\* C1: on every connection each frame the handler has read is answered by
\* exactly one send on that connection: the i-th send answers the i-th
\* frame read, a handler waiting at the read or in the send has answered
\* every frame it read, a handler in process_frame or about to send owes
\* exactly the one frame it holds, and a handler that ended owing a frame
\* ended because the send found the connection closed.
C1_OneResponsePerFrame ==
    \A c \in Conns :
        /\ Len(sent[c]) <= Len(readlog[c])
        /\ Len(readlog[c]) <= Len(sent[c]) + 1
        /\ \A i \in 1..Len(sent[c]) : sent[c][i].of = readlog[c][i].seq
        /\ pc[c] \in {"recv", "drain"} => Len(sent[c]) = Len(readlog[c])
        /\ pc[c] \in {"process", "send"} =>
               Len(readlog[c]) = Len(sent[c]) + 1
        /\ (pc[c] = "done" /\ Len(sent[c]) < Len(readlog[c])) =>
               (exit[c] = "send_closed" /\ connState[c] \in Closed)

\* A connection answered twice, once with an error and once with a
\* success, and waiting for a third frame.
C1_Witness ==
    \E c \in Conns :
        /\ pc[c] = "recv"
        /\ Len(sent[c]) = 2
        /\ {sent[c][1].body.status, sent[c][2].body.status}
               = {"error", "success"}

\* C2: frames are read in the order they arrived and answered in that
\* order, and a frame is read only when every earlier frame of the
\* connection has been answered.
C2_StrictAlternation ==
    [][\A c \in Conns :
          /\ readlog'[c] # readlog[c] =>
                /\ Len(sent[c]) = Len(readlog[c])
                /\ pc[c] = "recv"
                /\ readlog'[c] = Append(readlog[c],
                       [seq |-> Len(readlog[c]) + 1,
                        data |-> readlog'[c][Len(readlog'[c])].data])
          /\ sent'[c] # sent[c] =>
                /\ Len(sent'[c]) = Len(sent[c]) + 1
                /\ sent'[c][Len(sent'[c])].of = Len(sent'[c])
                /\ Len(readlog[c]) = Len(sent'[c])]_vars

\* Two different frames were read on one connection and both have been
\* answered, the first before the second.
C2_Witness ==
    \E c \in Conns :
        /\ Len(sent[c]) = 2
        /\ sent[c][1].of = 1
        /\ sent[c][2].of = 2
        /\ readlog[c][1].data # readlog[c][2].data

\* C3: sending an error Response leaves the connection open, registered
\* and its handler running, and the Response after an error Response is
\* the result of processing the next frame alone.
C3_ErrorKeepsConnection ==
    /\ [][\A c \in Conns :
            (/\ pc[c] = "send"
             /\ response[c].status = "error"
             /\ sent'[c] # sent[c]) =>
                (/\ pc'[c] \in {"recv", "drain"}
                 /\ connState'[c] = "OPEN"
                 /\ c \in clients')]_vars
    /\ [](\A c \in Conns : \A i \in 1..Len(sent[c]) :
            (i > 1 /\ sent[c][i - 1].body.status = "error") =>
                sent[c][i].body \in Results(readlog[c][i].data))

\* An error Response followed, on the same connection, by a success
\* Response with detections.
C3_Witness ==
    \E c \in Conns :
        /\ Len(sent[c]) = 2
        /\ sent[c][1].body.status = "error"
        /\ sent[c][2].body.status = "success"
        /\ sent[c][2].body.detections # << >>
        /\ c \in clients

\* C4: whenever decoding or detection raises, process_frame returns a
\* Response with status error, a non-empty message and an empty
\* detections list.
C4_ErrorResponseOnFailure ==
    (/\ call.ret # NoResponse
     /\ DecodeRaises(call.image_bytes) \/ ModelRaises(call.image_bytes)) =>
        /\ call.ret.status = "error"
        /\ call.ret.message # ""
        /\ call.ret.detections = << >>

\* C5: a handler that has ended has removed its connection from the set
\* exactly once, a handler that has not ended has not removed it, and no
\* removal was ever attempted on a connection that was not in the set.
C5_RemovedExactlyOnce ==
    /\ keyErrors = {}
    /\ \A c \in Conns :
          /\ pc[c] = "done" => (removals[c] = 1 /\ c \notin clients)
          /\ pc[c] # "done" => removals[c] = 0

\* Two handlers have ended, one through an exception that is not
\* ConnectionClosed and one through a failed send.
C5_Witness ==
    \E c, d \in Conns :
        /\ exit[c] = "raised"
        /\ exit[d] = "send_closed"
        /\ removals[c] = 1
        /\ removals[d] = 1

\* C6: a connection that is closed is eventually out of the set; when no
\* handler is running the set is empty; and a connection accepted while
\* the set is empty makes it a set of one.
C6_DisconnectedEventuallyRemoved ==
    /\ \A c \in Conns : (connState[c] \in Closed) ~> (c \notin clients)
    /\ []((\A c \in Conns : pc[c] \in {"fresh", "done"}) => clients = {})
    /\ [][\A c \in Conns :
            (clients = {} /\ pc[c] = "fresh" /\ pc'[c] # "fresh") =>
                clients' = {c}]_vars

\* One client has come and gone, and a connection accepted after that is
\* the only member of the set.
C6_Witness ==
    \E c, d \in Conns :
        /\ pc[c] = "done"
        /\ Len(sent[c]) > 0
        /\ pc[d] = "recv"
        /\ nframes[d] = 0
        /\ clients = {d}

\* The handler of b has something it could do if it were given the loop.
HasWork(b) ==
    \/ pc[b] = "recv" /\ inbox[b] # << >>
    \/ pc[b] = "recv" /\ inbox[b] = << >> /\ connState[b] \in Closed
    \/ pc[b] = "drain"

\* C7: while the detector call for a frame of connection a is running, the
\* handler of another connection b that has a frame to read, a send to
\* finish or a teardown to run can take its step.
C7_SlowInferenceDoesNotBlock ==
    \A a, b \in Conns :
        (a # b /\ pc[a] = "process" /\ HasWork(b)) => ENABLED Handler(b)

\* C8: every Response sent on a connection answers a frame that was read
\* on that connection and is a result of processing that frame.
C8_NoCrossConnectionLeak ==
    \A c \in Conns : \A i \in 1..Len(sent[c]) :
        \E j \in 1..Len(readlog[c]) :
            /\ sent[c][i].of = readlog[c][j].seq
            /\ sent[c][i].body \in Results(readlog[c][j].data)

\* Two connections are open together and each has been answered, one
\* with an error and the other with detections.
C8_Witness ==
    \E c, d \in Conns :
        /\ c # d
        /\ {c, d} \subseteq clients
        /\ Len(sent[c]) = 1
        /\ Len(sent[d]) = 1
        /\ sent[c][1].body.status = "error"
        /\ sent[d][1].body.status = "success"
        /\ sent[d][1].body.detections # << >>

\* C9: nothing is sent on a connection once it is closed, and neither the
\* loss of a connection nor the end of its handler changes anything of
\* another connection: its handler's position, its state, its membership
\* of the set, its queue and what was sent on it.
C9_TransportErrorIsLocal ==
    [][\A c \in Conns :
          /\ connState[c] # "OPEN" => sent'[c] = sent[c]
          /\ (\/ connState[c] = "OPEN" /\ connState'[c] \in Closed
              \/ pc[c] # "done" /\ pc'[c] = "done") =>
                \A d \in Conns \ {c} :
                    /\ pc'[d] = pc[d]
                    /\ connState'[d] = connState[d]
                    /\ (d \in clients') = (d \in clients)
                    /\ inbox'[d] = inbox[d]
                    /\ sent'[d] = sent[d]]_vars

\* One handler has ended on a failed read or send while the other
\* connection is open, registered and has been answered.
C9_Witness ==
    \E c, d \in Conns :
        /\ exit[c] \in {"recv_closed", "send_closed"}
        /\ connState[d] = "OPEN"
        /\ d \in clients
        /\ pc[d] = "recv"
        /\ Len(sent[d]) > 0

\* The peer of c has sent a message that the library refused to queue.
Oversized(c) == nframes[c] > Len(readlog[c]) + Len(inbox[c])

\* C10: no frame larger than max_size is ever handed to the handler; a
\* connection on which such a frame arrived is failed, no Response answers
\* that frame, and its handler ends, by ConnectionClosed or another
\* exception and never by a normal end of the iteration, with the
\* connection removed from the set once.
C10_OversizedRejected ==
    /\ [](\A c \in Conns : \A i \in 1..Len(readlog[c]) :
             Size(readlog[c][i].data) <= max_size)
    /\ [](\A c \in Conns : Oversized(c) =>
             /\ connState[c] = "CLOSED_ERR"
             /\ Len(sent[c]) < nframes[c]
             /\ \A i \in 1..Len(sent[c]) : sent[c][i].of < nframes[c]
             /\ pc[c] = "done" => exit[c] # "iter_end")
    /\ \A c \in Conns :
          Oversized(c) ~> (pc[c] = "done" /\ c \notin clients
                                          /\ removals[c] = 1)

\* A handler has ended after an oversized frame: it was never read, never
\* answered, and the connection is out of the set.
C10_Witness ==
    \E c \in Conns :
        /\ Oversized(c)
        /\ pc[c] = "done"
        /\ exit[c] = "recv_closed"
        /\ readlog[c] = << >>
        /\ sent[c] = << >>
        /\ c \notin clients

\* C11: a success Response has one Detection per raw detection of the
\* detector, in the detector's order, with x = x1, y = y1,
\* width = x2 - x1, height = y2 - y1, the label the table gives for the
\* class index, and the raw confidence.
C11_DetectionsMapped ==
    (call.ret # NoResponse /\ call.ret.status = "success") =>
        LET boxes == ModelBoxes(call.image_bytes)
            dets  == call.ret.detections
        IN  /\ Len(dets) = Len(boxes)
            /\ \A i \in 1..Len(boxes) :
                  /\ dets[i].x = boxes[i].x1
                  /\ dets[i].y = boxes[i].y1
                  /\ dets[i].width = boxes[i].x2 - boxes[i].x1
                  /\ dets[i].height = boxes[i].y2 - boxes[i].y1
                  /\ dets[i].className = names[boxes[i].cls]
                  /\ dets[i].confidence = boxes[i].conf

\* process_frame has returned two Detections of different classes for a
\* frame on which the detector found two objects.
C11_Witness ==
    /\ call.ret # NoResponse
    /\ call.ret.status = "success"
    /\ Len(ModelBoxes(call.image_bytes)) = 2
    /\ Len(call.ret.detections) = 2
    /\ call.ret.detections[1].className # call.ret.detections[2].className

\* C12: no Detection of a Response has a negative width or a negative
\* height.
C12_NoNegativeSize ==
    call.ret # NoResponse =>
        \A i \in 1..Len(call.ret.detections) :
            /\ call.ret.detections[i].width >= 0
            /\ call.ret.detections[i].height >= 0

\* What is left of a connection when its handler has ended.
EndState(c) == <<pc[c], c \in clients, removals[c], c \in keyErrors>>

\* C13: a send that finds the connection closed ends the handler: no
\* further frame is read, the connection is removed from the set once and
\* the handler is done; and a handler ended by a failed send leaves the
\* same end state as a handler ended by a failed read.
C13_WriteFailureLikeReadFailure ==
    /\ [][\A c \in Conns :
            /\ (/\ pc[c] \in {"send", "drain"}
                /\ connState[c] \in Closed
                /\ pc'[c] # pc[c]
                /\ exit'[c] # "raised") =>
                   /\ pc'[c] = "done"
                   /\ exit'[c] = "send_closed"
                   /\ c \in clients
                   /\ c \notin clients'
                   /\ removals'[c] = removals[c] + 1
                   /\ readlog'[c] = readlog[c]
            /\ exit[c] = "send_closed" =>
                   (pc'[c] = "done" /\ readlog'[c] = readlog[c])]_vars
    /\ [](\A c, d \in Conns :
            (exit[c] = "send_closed" /\ exit[d] = "recv_closed") =>
                EndState(c) = EndState(d))

\* One handler has ended on a failed send, with a frame still queued that
\* it never read, and another on a failed read.
C13_Witness ==
    \E c, d \in Conns :
        /\ exit[c] = "send_closed"
        /\ inbox[c] # << >>
        /\ exit[d] = "recv_closed"
        /\ pc[c] = "done"
        /\ pc[d] = "done"

\* C14: for a frame that decodes and on which the detector finds nothing,
\* the Response has status success, no detections and an inference_time
\* that is not negative.
C14_BlankFrameResponse ==
    (/\ call.ret # NoResponse
     /\ ~DecodeRaises(call.image_bytes)
     /\ ~ModelRaises(call.image_bytes)
     /\ ModelBoxes(call.image_bytes) = << >>) =>
        /\ call.ret.status = "success"
        /\ call.ret.detections = << >>
        /\ call.ret.inference_time >= 0

\* C15: a handler never returns to an earlier stage: once it has ended it
\* stays ended, reads and processes no frame, sends nothing and its
\* connection stays out of the set; and a read that fails, whether the
\* peer closed the connection or the connection was lost, ends the
\* handler through line 50 with the connection removed once.
C15_OpenThenClosed ==
    [][\A c \in Conns :
          /\ pc[c] # "fresh" => pc'[c] # "fresh"
          /\ pc[c] = "done" =>
                /\ pc'[c] = "done"
                /\ exit'[c] = exit[c]
                /\ readlog'[c] = readlog[c]
                /\ message'[c] = message[c]
                /\ response'[c] = response[c]
                /\ sent'[c] = sent[c]
                /\ c \notin clients'
          /\ (/\ pc[c] = "recv"
              /\ inbox[c] = << >>
              /\ connState[c] \in Closed
              /\ pc'[c] # "recv"
              /\ exit'[c] # "raised") =>
                /\ pc'[c] = "done"
                /\ exit'[c] = (IF connState[c] = "CLOSED_OK"
                               THEN "iter_end" ELSE "recv_closed")
                /\ c \in clients
                /\ c \notin clients'
                /\ removals'[c] = 1]_vars

\* A handler that answered a frame has ended on a failed read after the
\* connection was lost, and one has ended after a close handshake.
C15_Witness ==
    \E c, d \in Conns :
        /\ pc[c] = "done"
        /\ exit[c] = "recv_closed"
        /\ Len(sent[c]) > 0
        /\ pc[d] = "done"
        /\ exit[d] = "iter_end"

\* C16: a Response is of one of two shapes, told apart by status: a
\* success Response has exactly status, detections and inference_time; an
\* error Response has exactly status, message and detections, and its
\* detections list is empty.
C16_ResponseShape ==
    call.ret # NoResponse =>
        \/ /\ call.ret.status = "success"
           /\ DOMAIN call.ret = {"status", "detections", "inference_time"}
           /\ DOMAIN call.ret.detections = 1..Len(call.ret.detections)
        \/ /\ call.ret.status = "error"
           /\ DOMAIN call.ret = {"status", "message", "detections"}
           /\ call.ret.detections = << >>

\* process_frame has returned an error Response.
C16_Witness ==
    /\ call.ret # NoResponse
    /\ call.ret.status = "error"
    /\ call.ret.message # ""

\* C17: at most one handler is inside process_frame, and it is the one
\* that holds the event loop.
C17_DetectorSerialized ==
    \A a, b \in Conns :
        /\ (pc[a] = "process" /\ pc[b] = "process") => a = b
        /\ pc[a] = "process" => loop = a

\* One handler is inside process_frame while another connection has a
\* frame waiting to be processed.
C17_Witness ==
    \E a, b \in Conns :
        /\ a # b
        /\ pc[a] = "process"
        /\ pc[b] = "recv"
        /\ inbox[b] # << >>

\* The connection the server accepts next.
NextFresh(c) == pc[c] = "fresh" /\ \A b \in Conns : b < c => pc[b] # "fresh"

\* C18: however the earlier handlers have ended, the server accepts the
\* next connection whenever the event loop is free, the loop always
\* becomes free again, and an accepted connection is registered in the
\* set with its handler waiting for the first frame.
C18_KeepsServing ==
    /\ [](\A c \in Conns :
            (loop = NoConn /\ NextFresh(c)) => ENABLED Accept(c))
    /\ (loop # NoConn) ~> (loop = NoConn)
    /\ [][\A c \in Conns :
            (pc[c] = "fresh" /\ pc'[c] # "fresh") =>
                /\ pc'[c] = "recv"
                /\ connState'[c] = "OPEN"
                /\ clients' = clients \cup {c}]_vars

\* A handler has ended by an exception and the server can accept the
\* next connection.
C18_Witness ==
    \E c, d \in Conns :
        /\ exit[c] = "raised"
        /\ pc[d] = "fresh"
        /\ ENABLED Accept(d)

\* C19: the set holds exactly the connections whose handler has started
\* and has not ended.
C19_ActiveSetExact ==
    clients = {c \in Conns : pc[c] \in {"recv", "process", "send", "drain"}}

\* One connection is in the set while its frame is being answered and
\* another, whose handler has ended, is not.
C19_Witness ==
    \E c, d \in Conns :
        /\ pc[c] = "send"
        /\ c \in clients
        /\ pc[d] = "done"
        /\ d \notin clients

====
